---- MODULE Spec2Model ----
(***************************************************************************)
(* mona: the Maybe (Some / Nothing) and Result (Ok / Err) containers, the  *)
(* result(...) exception adapter and the method calls a caller makes on    *)
(* them.  Containers are objects on a heap (an address is an index of the  *)
(* heap), so "returns self" and "returns a fresh instance" are different   *)
(* outcomes.  Caller-supplied callables are inputs: small named functions  *)
(* whose every invocation is logged with its arguments and its outcome.    *)
(***************************************************************************)
EXTENDS Integers, Sequences, FiniteSets, TLC

VARIABLES heap, last, chain, scope, res

vars == <<heap, last, chain, scope, res>>

\* ------------------------------------------------------------------ bounds
\* Most objects ever allocated on the heap in one run.
MaxObjs == 2
\* Longest and_then chain whose length is still counted.
MaxChain == 2

\* ------------------------------------------------------- Python values
\* Every Python value is a record [k, t, n]: kind, type name, number
\* (the integer itself, or the identity of an object).
IntV(i) == [k |-> "int", t |-> "int", n |-> i]
StrV(i) == [k |-> "str", t |-> "str", n |-> i]
BoolV(b) == [k |-> "bool", t |-> "bool", n |-> IF b THEN 1 ELSE 0]
None == [k |-> "none", t |-> "NoneType", n |-> 0]
Exc(t, i) == [k |-> "exc", t |-> t, n |-> i]
Ref(a) == [k |-> "ref", t |-> "object", n |-> a]
Cm(i) == [k |-> "cm", t |-> "cm", n |-> i]
\* What a Nothing holds: it has no payload slot at all.
NoSlot == [k |-> "noslot", t |-> "", n |-> 0]

\* The exception classes: the library's own and the builtins its tests use.
ExcTypes ==
    {"Exception", "MaybeError", "NothingError", "ResultError",
     "ValueError", "TypeError", "AttributeError"}

\* The direct base class of each exception class.
Parent(t) ==
    CASE t = "NothingError" -> "MaybeError"
      [] t = "MaybeError" -> "Exception"
      [] t = "ResultError" -> "Exception"
      [] t = "ValueError" -> "Exception"
      [] t = "TypeError" -> "Exception"
      [] t = "AttributeError" -> "Exception"
      [] OTHER -> "BaseException"

\* issubclass(t, u)
RECURSIVE IsSubclass(_, _)
IsSubclass(t, u) ==
    IF t = u THEN TRUE
    ELSE IF t = "BaseException" THEN FALSE
    ELSE IsSubclass(Parent(t), u)

\* Whether "except types" catches the raised object x.
Matches(x, types) ==
    x.k = "exc" /\ \E u \in types : IsSubclass(x.t, u)

\* --------------------------------------------------------- outcomes
\* How a call ends: it returns val, or raises the exception object val
\* (args and cause are those of an exception the library itself builds).
Return(v) == [kind |-> "return", val |-> v, args |-> <<>>, cause |-> None]
Propagate(x) == [kind |-> "raise", val |-> x, args |-> <<>>, cause |-> None]
RaiseNew(t, args, cause) ==
    [kind |-> "raise", val |-> Exc(t, 0), args |-> args, cause |-> cause]

\* The text of Python's own error for a cause that is no exception.
BadCauseMsg == StrV(9)

\* raise t(*args) from y
RaiseFrom(t, args, y) ==
    IF y.k = "exc" THEN RaiseNew(t, args, y)
    ELSE IF y.k = "none" THEN RaiseNew(t, args, None)
    ELSE RaiseNew("TypeError", <<BadCauseMsg>>, None)

\* ------------------------------------------------------------- heap
Alloc(h, cls, payload) == Append(h, [cls |-> cls, payload |-> payload])
New(h) == Ref(Len(h) + 1)

\* What a method call yields: the heap after it, its outcome, and the log
\* of the invocations of caller-supplied callables it made.
Yield(h, out, calls) == [heap |-> h, out |-> out, calls |-> calls]

\* --------------------------------------------- caller-supplied callables
\* A callable is a pipeline <<f1, ..., fn>> of primitive functions, called
\* as fn(...f1(args)): the one-element pipeline is a plain function and
\* <<f, g>> is compose(g, f).  A primitive is [fn, c], c its captured value.
Fn(name, c) == [fn |-> name, c |-> c]

Arg1(args) == IF Len(args) > 0 THEN args[1] ELSE None

\* One primitive applied to args with keyword names kw: [heap, out].
CallPrim(h, p, args, kw) ==
    LET x == Arg1(args) IN
    CASE p.fn = "identity" -> [heap |-> h, out |-> Return(x)]
      [] p.fn = "flip" ->
           IF x.k = "int"
           THEN [heap |-> h, out |-> Return(IntV(1 - x.n))]
           ELSE [heap |-> h, out |-> Propagate(Exc("TypeError", 7))]
      [] p.fn = "const" -> [heap |-> h, out |-> Return(p.c)]
      [] p.fn = "raises" -> [heap |-> h, out |-> Propagate(p.c)]
      [] p.fn = "needs_catch" ->
           IF "catch" \in kw
           THEN [heap |-> h, out |-> Return(p.c)]
           ELSE [heap |-> h, out |-> Propagate(Exc("TypeError", 8))]
      [] p.fn = "mkSome" ->
           [heap |-> Alloc(h, "Some", x), out |-> Return(New(h))]
      [] p.fn = "someOf" ->
           [heap |-> Alloc(h, "Some", p.c), out |-> Return(New(h))]
      [] p.fn = "okOf" ->
           [heap |-> Alloc(h, "Ok", p.c), out |-> Return(New(h))]
      [] p.fn = "mkOk" ->
           [heap |-> Alloc(h, "Ok", x), out |-> Return(New(h))]
      [] p.fn = "mkErr" ->
           [heap |-> Alloc(h, "Err", p.c), out |-> Return(New(h))]
      [] p.fn = "maybe_pred" ->
           IF x.k = "int" /\ x.n > 0
           THEN [heap |-> Alloc(h, "Some", IntV(x.n - 1)), out |-> Return(New(h))]
           ELSE [heap |-> Alloc(h, "Nothing", NoSlot), out |-> Return(New(h))]

\* f(*args, **kw) for a pipeline f.
RECURSIVE CallF(_, _, _, _)
CallF(h, f, args, kw) ==
    IF Len(f) = 1 THEN CallPrim(h, f[1], args, kw)
    ELSE LET r == CallF(h, SubSeq(f, 1, Len(f) - 1), args, kw) IN
         IF r.out.kind = "raise" THEN r
         ELSE CallPrim(r.heap, f[Len(f)], <<r.out.val>>, {})

\* The log entry of one invocation.
Invoked(f, args, kw, out) == [f |-> f, args |-> args, kw |-> kw, out |-> out]

\* One invocation f(*args, **kw) made by a method, with its log entry.
Invoke(h, f, args, kw) ==
    LET r == CallF(h, f, args, kw) IN
    [heap |-> r.heap, out |-> r.out, calls |-> <<Invoked(f, args, kw, r.out)>>]

\* ----------------------------------------------------- maybe.py: Some
Some_and_then(h, a, f) ==
    Invoke(h, f, <<h[a].payload>>, {})

Some_apply(h, a, f) ==
    LET r == Invoke(h, f, <<h[a].payload>>, {}) IN
    IF r.out.kind = "raise" THEN r ELSE Yield(r.heap, Return(Ref(a)), r.calls)

Some_cast(h, a) == Yield(h, Return(Ref(a)), <<>>)

Some_get(h, a, default) == Yield(h, Return(h[a].payload), <<>>)

Some_map(h, a, f) ==
    LET r == Invoke(h, f, <<h[a].payload>>, {}) IN
    IF r.out.kind = "raise" THEN r
    ELSE Yield(Alloc(r.heap, "Some", r.out.val), Return(New(r.heap)), r.calls)

Some_or_else(h, a, f) == Yield(h, Return(Ref(a)), <<>>)

Some_or_raise(h, a, msg) == Yield(h, Return(Ref(a)), <<>>)

\* or_try as it would be if Some tried f as Nothing does.
Some_or_try_Invokes(h, a, f, args, kw) ==
    LET r == Invoke(h, f, args, kw) IN
    IF r.out.kind = "raise" THEN r
    ELSE Yield(Alloc(r.heap, "Some", r.out.val), Return(New(r.heap)), r.calls)

Some_or_try(h, a, f, args, kw) == Yield(h, Return(Ref(a)), <<>>)

Some_or_use(h, a, value) == Yield(h, Return(Ref(a)), <<>>)

Some_unwrap(h, a) == Yield(h, Return(h[a].payload), <<>>)

\* -------------------------------------------------- maybe.py: Nothing
Nothing_and_then(h, a, f) == Yield(h, Return(Ref(a)), <<>>)

Nothing_apply(h, a, f) == Yield(h, Return(Ref(a)), <<>>)

Nothing_cast(h, a) == Yield(h, Return(Ref(a)), <<>>)

Nothing_get(h, a, default) == Yield(h, Return(default), <<>>)

Nothing_map(h, a, f) == Yield(h, Return(Ref(a)), <<>>)

Nothing_or_else(h, a, f) == Invoke(h, f, <<>>, {})

Nothing_or_raise(h, a, msg) ==
    IF msg = None
    THEN Yield(h, RaiseNew("NothingError", <<>>, None), <<>>)
    ELSE Yield(h, RaiseNew("NothingError", <<msg>>, None), <<>>)

Nothing_or_try(h, a, f, args, kw) ==
    LET r == Invoke(h, f, args, kw) IN
    IF r.out.kind = "raise" THEN r
    ELSE Yield(Alloc(r.heap, "Some", r.out.val), Return(New(r.heap)), r.calls)

Nothing_or_use(h, a, value) ==
    Yield(Alloc(h, "Some", value), Return(New(h)), <<>>)

\* The message of Nothing.unwrap's error.
UnwrappedNothing == StrV(10)

Nothing_unwrap(h, a) ==
    Yield(h, RaiseNew("MaybeError", <<UnwrappedNothing>>, None), <<>>)

\* ------------------------------------------------------ result.py: Ok
Ok_and_then(h, a, f) ==
    Invoke(h, f, <<h[a].payload>>, {})

Ok_apply(h, a, f) ==
    LET r == Invoke(h, f, <<h[a].payload>>, {}) IN
    IF r.out.kind = "raise" THEN r ELSE Yield(r.heap, Return(Ref(a)), r.calls)

Ok_cast(h, a) == Yield(h, Return(Ref(a)), <<>>)

Ok_get(h, a, default) == Yield(h, Return(h[a].payload), <<>>)

Ok_map(h, a, f) ==
    LET r == Invoke(h, f, <<h[a].payload>>, {}) IN
    IF r.out.kind = "raise" THEN r
    ELSE Yield(Alloc(r.heap, "Ok", r.out.val), Return(New(r.heap)), r.calls)

Ok_map_err(h, a, f) == Yield(h, Return(Ref(a)), <<>>)

Ok_or_else(h, a, f) == Yield(h, Return(Ref(a)), <<>>)

Ok_or_try(h, a, f, args, kw, catch) == Yield(h, Return(Ref(a)), <<>>)

Ok_or_use(h, a, value) == Yield(h, Return(Ref(a)), <<>>)

Ok_or_raise(h, a, msg) == Yield(h, Return(Ref(a)), <<>>)

Ok_unwrap(h, a) == Yield(h, Return(h[a].payload), <<>>)

\* ----------------------------------------------------- result.py: Err
\* and_then as it would be if Err called f as Ok does.
Err_and_then_Invokes(h, a, f) ==
    Invoke(h, f, <<h[a].payload>>, {})

Err_and_then(h, a, f) == Yield(h, Return(Ref(a)), <<>>)

Err_apply(h, a, f) == Yield(h, Return(Ref(a)), <<>>)

Err_cast(h, a) == Yield(h, Return(Ref(a)), <<>>)

Err_get(h, a, default) == Yield(h, Return(default), <<>>)

Err_map(h, a, f) == Yield(h, Return(Ref(a)), <<>>)

Err_map_err(h, a, f) ==
    LET r == Invoke(h, f, <<h[a].payload>>, {}) IN
    IF r.out.kind = "raise" THEN r
    ELSE Yield(Alloc(r.heap, "Err", r.out.val), Return(New(r.heap)), r.calls)

Err_or_else(h, a, f) ==
    Invoke(h, f, <<h[a].payload>>, {})

\* or_try as it would be if a caught exception left the receiver's own
\* failure standing.
Err_or_try_KeepsOwnError(h, a, f, args, kw, catch) ==
    LET r == Invoke(h, f, args, kw) IN
    IF r.out.kind = "return"
    THEN Yield(Alloc(r.heap, "Ok", r.out.val), Return(New(r.heap)), r.calls)
    ELSE IF Matches(r.out.val, catch)
    THEN Yield(Alloc(r.heap, "Err", h[a].payload), Return(New(r.heap)),
               r.calls)
    ELSE r

\* try: return Ok(f(*args, **kwargs)) / except catch as e: return Err(e).
\* catch is a parameter of or_try itself, so kw never holds it.
Err_or_try(h, a, f, args, kw, catch) ==
    LET r == Invoke(h, f, args, kw) IN
    IF r.out.kind = "return"
    THEN Yield(Alloc(r.heap, "Ok", r.out.val), Return(New(r.heap)), r.calls)
    ELSE IF Matches(r.out.val, catch)
    THEN Yield(Alloc(r.heap, "Err", r.out.val), Return(New(r.heap)), r.calls)
    ELSE r

Err_or_use(h, a, value) ==
    Yield(Alloc(h, "Ok", value), Return(New(h)), <<>>)

\* or_raise as it would be without "from self._error".
Err_or_raise_NoCause(h, a, msg) ==
    IF msg = None
    THEN Yield(h, RaiseNew("ResultError", <<>>, None), <<>>)
    ELSE Yield(h, RaiseNew("ResultError", <<msg>>, None), <<>>)

Err_or_raise(h, a, msg) ==
    IF msg = None
    THEN Yield(h, RaiseFrom("ResultError", <<>>, h[a].payload), <<>>)
    ELSE Yield(h, RaiseFrom("ResultError", <<msg>>, h[a].payload), <<>>)

\* The message of Err.unwrap's error.
UnwrappedErr == StrV(11)

Err_unwrap(h, a) ==
    Yield(h, RaiseFrom("ResultError", <<UnwrappedErr>>, h[a].payload), <<>>)

\* --------------------------------------------- result.py: result(...)
\* The adapter as it would be if it caught by the exact class only.
result_ExactClass(h, types, f, args, kw) ==
    LET r == Invoke(h, f, args, kw) IN
    IF r.out.kind = "return"
    THEN Yield(Alloc(r.heap, "Ok", r.out.val), Return(New(r.heap)), r.calls)
    ELSE IF r.out.val.t \in types
    THEN Yield(Alloc(r.heap, "Err", r.out.val), Return(New(r.heap)), r.calls)
    ELSE r

\* result(ex, *result_args)(f)(*args, **kwargs), types = {ex, *result_args}.
result(h, types, f, args, kw) ==
    LET r == Invoke(h, f, args, kw) IN
    IF r.out.kind = "return"
    THEN Yield(Alloc(r.heap, "Ok", r.out.val), Return(New(r.heap)), r.calls)
    ELSE IF Matches(r.out.val, types)
    THEN Yield(Alloc(r.heap, "Err", r.out.val), Return(New(r.heap)), r.calls)
    ELSE r

\* ------------------------------------- attribute assignment, equality
\* a.name = v on a Some: "_value" is the instance's only slot, "value" a
\* property without a setter, and there is no __dict__ for another name.
Some_setattr(h, a, name, v) ==
    IF name = "_value"
    THEN Yield([h EXCEPT ![a].payload = v], Return(None), <<>>)
    ELSE Yield(h, RaiseNew("AttributeError", <<>>, None), <<>>)

\* Nothing has no slots at all.
Nothing_setattr(h, a, name, v) ==
    Yield(h, RaiseNew("AttributeError", <<>>, None), <<>>)

Ok_setattr(h, a, name, v) ==
    IF name = "_value"
    THEN Yield([h EXCEPT ![a].payload = v], Return(None), <<>>)
    ELSE Yield(h, RaiseNew("AttributeError", <<>>, None), <<>>)

Err_setattr(h, a, name, v) ==
    IF name = "_error"
    THEN Yield([h EXCEPT ![a].payload = v], Return(None), <<>>)
    ELSE Yield(h, RaiseNew("AttributeError", <<>>, None), <<>>)

\* a == b: no class defines __eq__, so it is object's, which is identity.
Container_eq(h, a, b) == Yield(h, Return(BoolV(a = b)), <<>>)

\* Same variant and equal payloads, as a match statement sees containers.
SameShape(h, a, b) == h[a].cls = h[b].cls /\ h[a].payload = h[b].payload

\* ------------------------------------------------- dynamic dispatch
IsMaybe(h, a) == h[a].cls \in {"Some", "Nothing"}
IsPresent(h, a) == h[a].cls \in {"Some", "Ok"}
IsAbsent(h, a) == h[a].cls \in {"Nothing", "Err"}

and_then(h, a, f) ==
    CASE h[a].cls = "Some" -> Some_and_then(h, a, f)
      [] h[a].cls = "Nothing" -> Nothing_and_then(h, a, f)
      [] h[a].cls = "Ok" -> Ok_and_then(h, a, f)
      [] h[a].cls = "Err" -> Err_and_then(h, a, f)

apply(h, a, f) ==
    CASE h[a].cls = "Some" -> Some_apply(h, a, f)
      [] h[a].cls = "Nothing" -> Nothing_apply(h, a, f)
      [] h[a].cls = "Ok" -> Ok_apply(h, a, f)
      [] h[a].cls = "Err" -> Err_apply(h, a, f)

cast(h, a) ==
    CASE h[a].cls = "Some" -> Some_cast(h, a)
      [] h[a].cls = "Nothing" -> Nothing_cast(h, a)
      [] h[a].cls = "Ok" -> Ok_cast(h, a)
      [] h[a].cls = "Err" -> Err_cast(h, a)

get(h, a, default) ==
    CASE h[a].cls = "Some" -> Some_get(h, a, default)
      [] h[a].cls = "Nothing" -> Nothing_get(h, a, default)
      [] h[a].cls = "Ok" -> Ok_get(h, a, default)
      [] h[a].cls = "Err" -> Err_get(h, a, default)

map(h, a, f) ==
    CASE h[a].cls = "Some" -> Some_map(h, a, f)
      [] h[a].cls = "Nothing" -> Nothing_map(h, a, f)
      [] h[a].cls = "Ok" -> Ok_map(h, a, f)
      [] h[a].cls = "Err" -> Err_map(h, a, f)

\* Only Result has map_err.
map_err(h, a, f) ==
    CASE h[a].cls = "Ok" -> Ok_map_err(h, a, f)
      [] h[a].cls = "Err" -> Err_map_err(h, a, f)

or_else(h, a, f) ==
    CASE h[a].cls = "Some" -> Some_or_else(h, a, f)
      [] h[a].cls = "Nothing" -> Nothing_or_else(h, a, f)
      [] h[a].cls = "Ok" -> Ok_or_else(h, a, f)
      [] h[a].cls = "Err" -> Err_or_else(h, a, f)

or_raise(h, a, msg) ==
    CASE h[a].cls = "Some" -> Some_or_raise(h, a, msg)
      [] h[a].cls = "Nothing" -> Nothing_or_raise(h, a, msg)
      [] h[a].cls = "Ok" -> Ok_or_raise(h, a, msg)
      [] h[a].cls = "Err" -> Err_or_raise(h, a, msg)

\* a.or_try(f, *args, **kws) with catch=catch among the keywords when
\* "catch" is in kws.  Result's or_try declares catch (default ()), so it
\* is bound there and the rest are kwargs; Maybe's or_try declares no
\* catch, so every keyword is one of kwargs.
or_try(h, a, f, args, kws, catch) ==
    LET c == IF "catch" \in kws THEN catch ELSE {} IN
    CASE h[a].cls = "Some" -> Some_or_try(h, a, f, args, kws)
      [] h[a].cls = "Nothing" -> Nothing_or_try(h, a, f, args, kws)
      [] h[a].cls = "Ok" -> Ok_or_try(h, a, f, args, kws \ {"catch"}, c)
      [] h[a].cls = "Err" -> Err_or_try(h, a, f, args, kws \ {"catch"}, c)

or_use(h, a, value) ==
    CASE h[a].cls = "Some" -> Some_or_use(h, a, value)
      [] h[a].cls = "Nothing" -> Nothing_or_use(h, a, value)
      [] h[a].cls = "Ok" -> Ok_or_use(h, a, value)
      [] h[a].cls = "Err" -> Err_or_use(h, a, value)

unwrap(h, a) ==
    CASE h[a].cls = "Some" -> Some_unwrap(h, a)
      [] h[a].cls = "Nothing" -> Nothing_unwrap(h, a)
      [] h[a].cls = "Ok" -> Ok_unwrap(h, a)
      [] h[a].cls = "Err" -> Err_unwrap(h, a)

setattr(h, a, name, v) ==
    CASE h[a].cls = "Some" -> Some_setattr(h, a, name, v)
      [] h[a].cls = "Nothing" -> Nothing_setattr(h, a, name, v)
      [] h[a].cls = "Ok" -> Ok_setattr(h, a, name, v)
      [] h[a].cls = "Err" -> Err_setattr(h, a, name, v)

\* ------------------------------------------------------------ inputs
\* Integer payloads: lambda x: 1 - x ("flip") maps them to each other.
IntVals == {IntV(0), IntV(1)}

\* The exception objects callers raise or hold: two of them of one class.
ExcObjs == {Exc("ValueError", 1), Exc("ValueError", 2), Exc("NothingError", 3)}

\* Failure payloads: exception objects and, as in Err("e"), a string.
ErrPayloads == {Exc("ValueError", 1), Exc("NothingError", 3), StrV(1)}

\* The containers a caller constructs directly.
Constructible ==
    {[cls |-> "Some", payload |-> v] : v \in IntVals}
    \cup {[cls |-> "Nothing", payload |-> NoSlot]}
    \cup {[cls |-> "Ok", payload |-> v] : v \in IntVals}
    \cup {[cls |-> "Err", payload |-> e] : e \in ErrPayloads}

\* Callables handed to map / map_err.
MapFuncs ==
    {<<Fn("identity", None)>>, <<Fn("flip", None)>>,
     <<Fn("raises", Exc("ValueError", 1))>>}

\* Callables handed to and_then: they take the payload and return a
\* container.
BindFuncs ==
    {<<Fn("mkSome", None)>>, <<Fn("maybe_pred", None)>>,
     <<Fn("mkOk", None)>>, <<Fn("mkErr", Exc("ValueError", 2))>>,
     <<Fn("raises", Exc("ValueError", 1))>>}

\* Callables handed to or_else: they return a container whatever they get.
ElseFuncs ==
    {<<Fn("someOf", IntV(0))>>, <<Fn("okOf", IntV(0))>>,
     <<Fn("mkErr", Exc("ValueError", 2))>>,
     <<Fn("raises", Exc("ValueError", 1))>>}

\* Callables handed to apply.
ApplyFuncs == {<<Fn("const", None)>>, <<Fn("raises", Exc("ValueError", 1))>>}

\* Callables handed to or_try and to the result adapter.
TryFuncs ==
    {<<Fn("const", IntV(0))>>, <<Fn("needs_catch", IntV(0))>>,
     <<Fn("raises", Exc("ValueError", 2))>>,
     <<Fn("raises", Exc("NothingError", 3))>>}

TryArgs == {<<>>, <<IntV(0)>>}

\* Keyword names a caller passes along with or_try's positional arguments.
Keywords == {{}, {"catch"}, {"catch", "k"}}

\* Values of catch=, and the type lists of the adapter (the non-empty ones).
CatchSets ==
    {{}, {"ValueError"}, {"MaybeError"}, {"ValueError", "TypeError"}}

Messages == {None, StrV(2)}

AttrNames == {"value", "error", "_value", "_error"}

\* ---------------------------------------------------- the call record
\* The latest call: the method (op), the receiver's address (recv, 0 for a
\* plain function), what it was given, the receiver as it was before the
\* call (was), the outcome and the invocations made.
NoObj == [cls |-> "", payload |-> NoSlot]

Call(op, a, f, args, kw, catch, arg, name, R) ==
    [op |-> op, recv |-> a, f |-> f, args |-> args, kw |-> kw,
     catch |-> catch, arg |-> arg, name |-> name,
     was |-> IF a = 0 THEN NoObj ELSE heap[a],
     out |-> R.out, calls |-> R.calls]

NoCall ==
    [op |-> "", recv |-> 0, f |-> <<>>, args |-> <<>>, kw |-> {},
     catch |-> {}, arg |-> None, name |-> "", was |-> NoObj,
     out |-> Return(None), calls |-> <<>>]

\* ------------------------------------------------ the and_then chain
\* A chain c.and_then(f1).and_then(f2)...: start is c, cur the container the
\* next link is called on, len the links so far, failed the first absent or
\* failure container met (0: none yet), snap that container as it was
\* then, late the invocations of an fi made after it.
NoChain ==
    [start |-> 0, cur |-> 0, len |-> 0, failed |-> 0, snap |-> NoObj,
     late |-> 0]

StartChain(h, a) ==
    [start |-> a, cur |-> a, len |-> 0,
     failed |-> IF IsAbsent(h, a) THEN a ELSE 0,
     snap |-> IF IsAbsent(h, a) THEN h[a] ELSE NoObj,
     late |-> 0]

Min(x, y) == IF x < y THEN x ELSE y

Link(c, h, a, R) ==
    LET base == IF c.cur = a /\ c.len > 0 THEN c ELSE StartChain(h, a)
        late == base.late + (IF base.failed # 0 THEN Len(R.calls) ELSE 0)
        n == Min(base.len + 1, MaxChain)
        to == IF R.out.kind = "return" /\ R.out.val.k = "ref"
              THEN R.out.val.n ELSE 0
    IN  IF base.failed # 0 \/ to = 0 \/ ~IsAbsent(R.heap, to)
        THEN [base EXCEPT !.cur = to, !.len = n, !.late = late]
        ELSE [start |-> base.start, cur |-> to, len |-> n, failed |-> to,
              snap |-> R.heap[to], late |-> late]

\* ------------------------------------------------ the scoped use
\* "with c as x: body", c a container at address cm: pc is where the
\* statement stands, as what x is bound to, exc the exception the body
\* raised (None: it completed), verdict what c.__exit__ returned, outcome
\* how the statement ended.
ScopeIdle ==
    [pc |-> "idle", cm |-> 0, as |-> None, exc |-> None, verdict |-> None,
     outcome |-> ""]

\* The caller's scoped resource r: enters counts its __enter__ calls, got
\* lists the exception details each __exit__ call received (None: no
\* exception); yields is what its __enter__ returns, answers what its
\* __exit__ returns, enter_raises whether its __enter__ raises instead.
Resource(yields, answers, enter_raises) ==
    [enters |-> 0, got |-> <<>>, yields |-> yields, answers |-> answers,
     enter_raises |-> enter_raises]

ResIdle == Resource(None, None, FALSE)

\* r.__enter__() and r.__exit__(exc details) on the resource in state rs;
\* a payload that is no scoped resource has neither method.
Cm_enter(rs, r) ==
    IF r.k # "cm"
    THEN [res |-> rs, out |-> RaiseNew("AttributeError", <<>>, None)]
    ELSE IF rs.enter_raises
    THEN [res |-> [rs EXCEPT !.enters = @ + 1],
          out |-> Propagate(Exc("ValueError", 1))]
    ELSE [res |-> [rs EXCEPT !.enters = @ + 1], out |-> Return(rs.yields)]

Cm_exit(rs, r, exc) ==
    IF r.k # "cm"
    THEN [res |-> rs, out |-> RaiseNew("AttributeError", <<>>, None)]
    ELSE [res |-> [rs EXCEPT !.got = Append(@, exc)], out |-> Return(rs.answers)]

\* What __enter__ / __exit__ of a container yield: heap, resource, outcome.
Scoped(h, rs, out) == [heap |-> h, res |-> rs, out |-> out]

Some_enter(h, a, rs) ==
    LET r == Cm_enter(rs, h[a].payload) IN
    IF r.out.kind = "raise" THEN Scoped(h, r.res, r.out)
    ELSE Scoped(Alloc(h, "Some", r.out.val), r.res, Return(New(h)))

Some_exit(h, a, rs, exc) ==
    LET r == Cm_exit(rs, h[a].payload, exc) IN Scoped(h, r.res, r.out)

Nothing_enter(h, a, rs) == Scoped(h, rs, Return(Ref(a)))

Nothing_exit(h, a, rs, exc) == Scoped(h, rs, Return(None))

Ok_enter(h, a, rs) ==
    LET r == Cm_enter(rs, h[a].payload) IN
    IF r.out.kind = "raise" THEN Scoped(h, r.res, r.out)
    ELSE Scoped(Alloc(h, "Ok", r.out.val), r.res, Return(New(h)))

\* __exit__ as it would be if Ok told the resource of no exception.
Ok_exit_DropsException(h, a, rs, exc) ==
    LET r == Cm_exit(rs, h[a].payload, None) IN Scoped(h, r.res, r.out)

Ok_exit(h, a, rs, exc) ==
    LET r == Cm_exit(rs, h[a].payload, exc) IN Scoped(h, r.res, r.out)

Err_enter(h, a, rs) == Scoped(h, rs, Return(Ref(a)))

Err_exit(h, a, rs, exc) == Scoped(h, rs, Return(None))

enter(h, a, rs) ==
    CASE h[a].cls = "Some" -> Some_enter(h, a, rs)
      [] h[a].cls = "Nothing" -> Nothing_enter(h, a, rs)
      [] h[a].cls = "Ok" -> Ok_enter(h, a, rs)
      [] h[a].cls = "Err" -> Err_enter(h, a, rs)

exit(h, a, rs, exc) ==
    CASE h[a].cls = "Some" -> Some_exit(h, a, rs, exc)
      [] h[a].cls = "Nothing" -> Nothing_exit(h, a, rs, exc)
      [] h[a].cls = "Ok" -> Ok_exit(h, a, rs, exc)
      [] h[a].cls = "Err" -> Err_exit(h, a, rs, exc)

\* bool(v) of what an __exit__ returned.
Truthy(v) == v = BoolV(TRUE)

\* ----------------------------------------------------------- actions
Addrs == 1..Len(heap)

\* A call that ended: the heap it left, its record, and the chain.  The
\* caller makes one call at a time: the next one after it has taken the
\* outcome of this one (Proceed).
Commit(c, R) ==
    /\ last = NoCall
    /\ Len(R.heap) <= MaxObjs
    /\ heap' = R.heap
    /\ last' = c
    /\ chain' = IF c.op = "and_then" THEN Link(chain, heap, c.recv, R)
                ELSE NoChain
    /\ UNCHANGED <<scope, res>>

\* Some(v), Nothing(), Ok(v), Err(e)
Construct ==
    \E o \in Constructible :
        LET R == Yield(Alloc(heap, o.cls, o.payload), Return(New(heap)), <<>>)
        IN  Commit(Call("construct", 0, <<>>, <<>>, {}, {}, o.payload,
                        o.cls, R), R)

AndThen ==
    \E a \in Addrs, f \in BindFuncs :
        LET R == and_then(heap, a, f)
        IN  Commit(Call("and_then", a, f, <<>>, {}, {}, None, "", R), R)

Apply ==
    \E a \in Addrs, f \in ApplyFuncs :
        LET R == apply(heap, a, f)
        IN  Commit(Call("apply", a, f, <<>>, {}, {}, None, "", R), R)

Cast ==
    \E a \in Addrs :
        LET R == cast(heap, a)
        IN  Commit(Call("cast", a, <<>>, <<>>, {}, {}, None, "", R), R)

Get ==
    \E a \in Addrs, d \in IntVals :
        LET R == get(heap, a, d)
        IN  Commit(Call("get", a, <<>>, <<>>, {}, {}, d, "", R), R)

Map ==
    \E a \in Addrs, f \in MapFuncs :
        LET R == map(heap, a, f)
        IN  Commit(Call("map", a, f, <<>>, {}, {}, None, "", R), R)

MapErr ==
    \E a \in Addrs, f \in MapFuncs :
        /\ ~IsMaybe(heap, a)
        /\ LET R == map_err(heap, a, f)
           IN  Commit(Call("map_err", a, f, <<>>, {}, {}, None, "", R), R)

OrElse ==
    \E a \in Addrs, f \in ElseFuncs :
        LET R == or_else(heap, a, f)
        IN  Commit(Call("or_else", a, f, <<>>, {}, {}, None, "", R), R)

OrRaise ==
    \E a \in Addrs, msg \in Messages :
        LET R == or_raise(heap, a, msg)
        IN  Commit(Call("or_raise", a, <<>>, <<>>, {}, {}, msg, "", R), R)

OrTry ==
    \E a \in Addrs, f \in TryFuncs, args \in TryArgs, kws \in Keywords,
       catch \in CatchSets :
        /\ ("catch" \notin kws) => catch = {}
        /\ LET R == or_try(heap, a, f, args, kws, catch)
           IN  Commit(Call("or_try", a, f, args, kws, catch, None, "", R), R)

OrUse ==
    \E a \in Addrs, v \in IntVals :
        LET R == or_use(heap, a, v)
        IN  Commit(Call("or_use", a, <<>>, <<>>, {}, {}, v, "", R), R)

Unwrap ==
    \E a \in Addrs :
        LET R == unwrap(heap, a)
        IN  Commit(Call("unwrap", a, <<>>, <<>>, {}, {}, None, "", R), R)

SetAttr ==
    \E a \in Addrs, name \in AttrNames, v \in {IntV(1)} :
        LET R == setattr(heap, a, name, v)
        IN  Commit(Call("setattr", a, <<>>, <<>>, {}, {}, v, name, R), R)

Eq ==
    \E a \in Addrs, b \in Addrs :
        LET R == Container_eq(heap, a, b)
        IN  Commit(Call("eq", a, <<>>, <<>>, {}, {}, Ref(b), "", R), R)

\* result(*types)(f)(*args, **kw)
Adapter ==
    \E types \in CatchSets \ {{}}, f \in TryFuncs, args \in TryArgs,
       kw \in SUBSET {"k"} :
        LET R == result(heap, types, f, args, kw)
        IN  Commit(Call("result", 0, f, args, kw, types, None, "", R), R)

\* The caller goes on to its next statement.
Proceed ==
    /\ last # NoCall
    /\ last' = NoCall
    /\ UNCHANGED <<heap, chain, scope, res>>

Init ==
    /\ \E o \in Constructible : heap = <<o>>
    /\ last = NoCall
    /\ chain = NoChain
    /\ scope = ScopeIdle
    /\ res = ResIdle

Next ==
    \/ Construct
    \/ AndThen
    \/ Apply
    \/ Cast
    \/ Get
    \/ Map
    \/ MapErr
    \/ OrElse
    \/ OrRaise
    \/ OrTry
    \/ OrUse
    \/ Unwrap
    \/ SetAttr
    \/ Eq
    \/ Adapter
    \/ Proceed

Spec == Init /\ [][Next]_vars

\* ------------------------------------------- the with statement
\* The containers used as "with c": around the resource, around a payload
\* that is no resource, and the variants that hold none.
ScopeManagers ==
    {[cls |-> "Some", payload |-> Cm(1)], [cls |-> "Ok", payload |-> Cm(1)],
     [cls |-> "Some", payload |-> IntV(0)],
     [cls |-> "Nothing", payload |-> NoSlot],
     [cls |-> "Err", payload |-> Exc("ValueError", 1)],
     [cls |-> "Err", payload |-> StrV(1)]}

ExitAnswers == {BoolV(TRUE), BoolV(FALSE), None}

EnterYields == {Cm(1), IntV(1)}

InitScope ==
    /\ \E o \in ScopeManagers : heap = <<o>>
    /\ \E y \in EnterYields, v \in ExitAnswers, b \in BOOLEAN :
          res = Resource(y, v, b)
    /\ last = NoCall
    /\ chain = NoChain
    /\ scope = ScopeIdle

\* with c as x: c.__enter__() is called; if it raises, the statement ends
\* there and __exit__ is not called.
WithEnter ==
    /\ scope.pc = "idle"
    /\ \E a \in Addrs :
          LET R == enter(heap, a, res) IN
          /\ heap' = R.heap
          /\ res' = R.res
          /\ scope' = IF R.out.kind = "raise"
                      THEN [scope EXCEPT !.pc = "done", !.cm = a,
                                         !.exc = R.out.val,
                                         !.outcome = "enter_raised"]
                      ELSE [scope EXCEPT !.pc = "body", !.cm = a,
                                         !.as = R.out.val]
    /\ UNCHANGED <<last, chain>>

\* The end of the body, with exc raised in it (None: it completed):
\* c.__exit__ is called with the details; an exception goes on unless
\* what __exit__ returned is true.
EndBody(exc) ==
    LET R == exit(heap, scope.cm, res, exc) IN
    /\ heap' = R.heap
    /\ res' = R.res
    /\ scope' = IF R.out.kind = "raise"
                THEN [scope EXCEPT !.pc = "done", !.exc = R.out.val,
                                   !.outcome = "exit_raised"]
                ELSE [scope EXCEPT
                        !.pc = "done", !.exc = exc, !.verdict = R.out.val,
                        !.outcome = IF exc = None THEN "completed"
                                    ELSE IF Truthy(R.out.val) THEN "suppressed"
                                    ELSE "propagated"]
    /\ UNCHANGED <<last, chain>>

BodyCompletes ==
    /\ scope.pc = "body"
    /\ EndBody(None)

BodyRaises ==
    /\ scope.pc = "body"
    /\ \E x \in ExcObjs : EndBody(x)

NextScope ==
    \/ WithEnter
    \/ BodyCompletes
    \/ BodyRaises

SpecScope == InitScope /\ [][NextScope]_vars

\* ------------------------------------- guards and conversions
\* Most objects on the heap in a run of conversions.
MaxTrip == 3

\* isinstance(x, cls): only containers live on the heap, so any other
\* value is an instance of no container class.
IsInstance(h, x, cls) == x.k = "ref" /\ h[x.n].cls = cls

is_nothing(h, x) == Yield(h, Return(BoolV(IsInstance(h, x, "Nothing"))), <<>>)

is_some(h, x) == Yield(h, Return(BoolV(IsInstance(h, x, "Some"))), <<>>)

is_err(h, x) == Yield(h, Return(BoolV(IsInstance(h, x, "Err"))), <<>>)

\* is_ok as it would be if it asked for the truth value of its argument
\* (Ok.__bool__ is True) instead of its class.
is_ok_Truthy(h, x) ==
    IF x.k = "ref"
    THEN Yield(h, Return(BoolV(h[x.n].cls \in {"Some", "Ok"})), <<>>)
    ELSE Yield(h, Return(BoolV(x \notin {None, IntV(0), BoolV(FALSE)})), <<>>)

is_ok(h, x) == Yield(h, Return(BoolV(IsInstance(h, x, "Ok"))), <<>>)

GuardNames == {"is_some", "is_nothing", "is_ok", "is_err"}

guard(h, g, x) ==
    CASE g = "is_some" -> is_some(h, x)
      [] g = "is_nothing" -> is_nothing(h, x)
      [] g = "is_ok" -> is_ok(h, x)
      [] g = "is_err" -> is_err(h, x)

\* into_maybe as it would be if a failure kept its payload.
into_maybe_KeepsError(h, r) ==
    IF IsInstance(h, r, "Ok")
    THEN Yield(Alloc(h, "Some", h[r.n].payload), Return(New(h)), <<>>)
    ELSE IF IsInstance(h, r, "Err")
    THEN Yield(Alloc(h, "Some", h[r.n].payload), Return(New(h)), <<>>)
    ELSE Yield(h, RaiseNew("TypeError", <<>>, None), <<>>)

\* match r: case Ok(v): Some(v); case Err(_): Nothing(); case _: TypeError
into_maybe(h, r) ==
    IF IsInstance(h, r, "Ok")
    THEN Yield(Alloc(h, "Some", h[r.n].payload), Return(New(h)), <<>>)
    ELSE IF IsInstance(h, r, "Err")
    THEN Yield(Alloc(h, "Nothing", NoSlot), Return(New(h)), <<>>)
    ELSE Yield(h, RaiseNew("TypeError", <<>>, None), <<>>)

\* match m: case Some(v): Ok(v); case Nothing(): Err(None); case _: TypeError
into_result(h, m) ==
    IF IsInstance(h, m, "Some")
    THEN Yield(Alloc(h, "Ok", h[m.n].payload), Return(New(h)), <<>>)
    ELSE IF IsInstance(h, m, "Nothing")
    THEN Yield(Alloc(h, "Err", None), Return(New(h)), <<>>)
    ELSE Yield(h, RaiseNew("TypeError", <<>>, None), <<>>)

\* The values handed to the guards and the conversions: every container
\* constructed so far and values that are no container.
Foreign == {IntV(1), StrV(1), None}

Anything == {Ref(a) : a \in Addrs} \cup Foreign

AddrOf(x) == IF x.k = "ref" THEN x.n ELSE 0

\* A trip: conversions each applied to the result of the one before.  Of
\* the chain record it uses start (the container the trip began with), cur
\* (the latest result) and len (the conversions made, at most two: a third
\* begins a new trip).
Trip(c, a, R) ==
    LET base == IF c.cur = a /\ c.len = 1 THEN c
                ELSE [NoChain EXCEPT !.start = a, !.cur = a]
    IN  IF a = 0 \/ R.out.kind = "raise" THEN NoChain
        ELSE [base EXCEPT !.cur = R.out.val.n, !.len = base.len + 1]

\* A call of a module-level function that ended.
CommitFunction(c, R) ==
    /\ last = NoCall
    /\ Len(R.heap) <= MaxTrip
    /\ heap' = R.heap
    /\ last' = c
    /\ chain' = IF c.op \in GuardNames THEN chain
                ELSE Trip(chain, c.recv, R)
    /\ UNCHANGED <<scope, res>>

Guard ==
    \E g \in GuardNames, x \in Anything :
        LET R == guard(heap, g, x)
        IN  CommitFunction(Call(g, AddrOf(x), <<>>, <<>>, {}, {}, x, "", R), R)

IntoMaybe ==
    \E x \in Anything :
        LET R == into_maybe(heap, x)
        IN  CommitFunction(Call("into_maybe", AddrOf(x), <<>>, <<>>, {}, {}, x,
                                "", R), R)

IntoResult ==
    \E x \in Anything :
        LET R == into_result(heap, x)
        IN  CommitFunction(Call("into_result", AddrOf(x), <<>>, <<>>, {}, {}, x,
                                "", R), R)

NextFunctions ==
    \/ Guard
    \/ IntoMaybe
    \/ IntoResult
    \/ Proceed

SpecFunctions == Init /\ [][NextFunctions]_vars

\* ------------------------------------------------------------ claims
\* What the latest call's only invocation did, when it made exactly one.
TheCall == last.calls[1]

\* The latest call invoked f exactly once, with the positional arguments
\* it was given and the keywords kw.
InvokedOnce(kw) ==
    /\ Len(last.calls) = 1
    /\ TheCall.f = last.f
    /\ TheCall.args = last.args
    /\ TheCall.kw = kw

\* The latest call returned a container made by the call itself, of class
\* cls, holding v.
ReturnsFresh(cls, v) ==
    /\ last.out.kind = "return"
    /\ last.out.val.k = "ref"
    /\ last.out.val.n \in Addrs
    /\ last.out.val.n # last.recv
    /\ heap[last.out.val.n] = [cls |-> cls, payload |-> v]

\* The latest call let the exception object x through, as it was.
Propagates(x) == last.out = Propagate(x)

\* The exception x is an instance of one of the classes: of the class
\* itself or of a subclass.
InstanceOfAny(x, classes) ==
    x.k = "exc" /\ \E u \in classes : IsSubclass(x.t, u)

\* C1 (as amended): result(L...)(f)(args) invokes f(args) exactly once; if
\* f returns v the call returns Ok(v); if f raises x and x is an instance of
\* a listed class (of the class or of a subclass of it, as except matches)
\* the call returns Err(x) holding that very object; any other exception
\* propagates as it is and no container is returned.
C1_AdapterFidelity ==
    last.op = "result" =>
        /\ InvokedOnce(last.kw)
        /\ TheCall.out.kind = "return" => ReturnsFresh("Ok", TheCall.out.val)
        /\ (TheCall.out.kind = "raise"
              /\ InstanceOfAny(TheCall.out.val, last.catch))
           => ReturnsFresh("Err", TheCall.out.val)
        /\ (TheCall.out.kind = "raise"
              /\ ~InstanceOfAny(TheCall.out.val, last.catch))
           => Propagates(TheCall.out.val)

\* C1 witness: f raised an instance of a subclass of a listed class, whose
\* own class is not listed, and the adapter returned.
C1_SubclassCaught ==
    /\ last.op = "result"
    /\ Len(last.calls) = 1
    /\ TheCall.out.kind = "raise"
    /\ TheCall.out.val.t \notin last.catch
    /\ InstanceOfAny(TheCall.out.val, last.catch)
    /\ last.out.kind = "return"

\* C1 as stated: Err(x) exactly when the type of x is one of the listed
\* types, and x propagates whenever its type is not listed.
C1_ExactTypeOnly ==
    last.op = "result" =>
        /\ InvokedOnce(last.kw)
        /\ TheCall.out.kind = "return" => ReturnsFresh("Ok", TheCall.out.val)
        /\ (TheCall.out.kind = "raise" /\ TheCall.out.val.t \in last.catch)
           => ReturnsFresh("Err", TheCall.out.val)
        /\ (TheCall.out.kind = "raise" /\ TheCall.out.val.t \notin last.catch)
           => Propagates(TheCall.out.val)

\* The latest call is the method op on a receiver of class cls.
Called(op, cls) == last.op = op /\ last.was.cls = cls

\* The catch set or_try works with: the one given, or the empty default.
GivenCatch == IF "catch" \in last.kw THEN last.catch ELSE {}

\* C2: Err(e).or_try(f, args..., catch=types) invokes f(args...) exactly
\* once and never hands it the catch keyword; it returns Ok(r) when f
\* returns r, Err(x) when f raises an x that matches catch, and lets any
\* other exception through as it is; without catch nothing is caught.  The
\* receiver's own payload e plays no part: the container returned is a new
\* one holding what f returned or raised.
C2_ErrOrTry ==
    Called("or_try", "Err") =>
        /\ InvokedOnce(last.kw \ {"catch"})
        /\ TheCall.out.kind = "return" => ReturnsFresh("Ok", TheCall.out.val)
        /\ (TheCall.out.kind = "raise"
              /\ InstanceOfAny(TheCall.out.val, GivenCatch))
           => ReturnsFresh("Err", TheCall.out.val)
        /\ (TheCall.out.kind = "raise"
              /\ ~InstanceOfAny(TheCall.out.val, GivenCatch))
           => Propagates(TheCall.out.val)
        /\ ("catch" \notin last.kw /\ TheCall.out.kind = "raise")
           => Propagates(TheCall.out.val)

\* C2 witness: an Err whose f raised a matching exception other than the
\* receiver's own payload, with keywords besides catch.
C2_CaughtOther ==
    /\ Called("or_try", "Err")
    /\ last.kw = {"catch", "k"}
    /\ Len(last.calls) = 1
    /\ TheCall.out.kind = "raise"
    /\ TheCall.out.val # last.was.payload
    /\ last.out.kind = "return"

\* C3: on an Err whose payload e is an exception object, unwrap() and
\* or_raise(msg?) raise ResultError with that very e as its cause, or_raise
\* with msg as the error's only argument when msg is given; neither
\* returns.  On Ok(v), unwrap returns v and or_raise returns the container
\* itself.
C3_ErrRaisesChained ==
    /\ (Called("unwrap", "Err") /\ last.was.payload.k = "exc") =>
          /\ last.out.kind = "raise"
          /\ last.out.val.t = "ResultError"
          /\ last.out.cause = last.was.payload
    /\ (Called("or_raise", "Err") /\ last.was.payload.k = "exc") =>
          /\ last.out.kind = "raise"
          /\ last.out.val.t = "ResultError"
          /\ last.out.cause = last.was.payload
          /\ last.arg # None => last.out.args = <<last.arg>>
    /\ Called("unwrap", "Ok") => last.out = Return(last.was.payload)
    /\ Called("or_raise", "Ok") => last.out = Return(Ref(last.recv))

\* C3 witness: or_raise with a message on an Err holding an exception.
C3_RaisedWithMessage ==
    /\ Called("or_raise", "Err")
    /\ last.was.payload.k = "exc"
    /\ last.arg # None
    /\ last.out.kind = "raise"

\* C4: on an Err whose payload e is no exception object (the string of
\* Err("e")), or_raise(msg?) and unwrap() still raise ResultError, and the
\* error carries the representation of e; no other error takes its place.
C4_NonExceptionPayload ==
    ((Called("unwrap", "Err") \/ Called("or_raise", "Err"))
        /\ last.was.payload.k # "exc") =>
        /\ last.out.kind = "raise"
        /\ last.out.val.t = "ResultError"
        /\ \E i \in 1..Len(last.out.args) : last.out.args[i] = last.was.payload

\* A handler "except NothingError" catches what the latest call raised.
CaughtAsNothingError ==
    last.out.kind = "raise" /\ InstanceOfAny(last.out.val, {"NothingError"})

\* C5: Nothing().unwrap() and Nothing().or_raise(msg?) raise one and the
\* same kind of error, the NothingError a handler for or_raise catches,
\* or_raise with msg as its only argument when msg is given; on Some(v),
\* unwrap returns v and or_raise returns the container itself.
C5_AbsenceError ==
    /\ Called("unwrap", "Nothing") => CaughtAsNothingError
    /\ Called("or_raise", "Nothing") =>
          /\ CaughtAsNothingError
          /\ last.arg # None => last.out.args = <<last.arg>>
    /\ Called("unwrap", "Some") => last.out = Return(last.was.payload)
    /\ Called("or_raise", "Some") => last.out = Return(Ref(last.recv))

\* C6: and_then short-circuits.  On Some(x) and Ok(x) it returns exactly
\* f(x); on Nothing and Err(e) it returns the container itself and does not
\* invoke f.  So in a chain c.and_then(f1)...and_then(fn), once a link has
\* yielded the absent or failure variant no later fi is invoked and the
\* result stays that very container, its payload unchanged.
C6_AndThenShortCircuit ==
    /\ (last.op = "and_then" /\ last.was.cls \in {"Some", "Ok"}) =>
          /\ Len(last.calls) = 1
          /\ TheCall.f = last.f
          /\ TheCall.args = <<last.was.payload>>
          /\ last.out = TheCall.out
    /\ (last.op = "and_then" /\ last.was.cls \in {"Nothing", "Err"}) =>
          /\ last.out = Return(Ref(last.recv))
          /\ last.calls = <<>>
          /\ heap[last.recv] = last.was
    /\ chain.failed # 0 =>
          /\ chain.late = 0
          /\ chain.cur = chain.failed
          /\ heap[chain.failed] = chain.snap

\* C6 witness: a chain that began on a present or success container, met
\* the absent or failure variant at some link, and went on after it.
C6_FailedMidChain ==
    /\ last.op = "and_then"
    /\ chain.failed # 0
    /\ chain.start # chain.failed
    /\ chain.len >= 2

\* a == b holds, by the containers' own equality.
PyEq(h, a, b) == Container_eq(h, a, b).out.val = BoolV(TRUE)

\* C7: the functor laws under the containers' own equality:
\* m.map(identity) == m and m.map(f).map(g) == m.map(compose(g, f)) for
\* every container m, and two containers of the same variant with equal
\* payloads compare equal although they are different objects.
C7_FunctorLaws ==
    /\ (last.op = "map" /\ last.f = <<Fn("identity", None)>>
          /\ last.out.kind = "return")
       => PyEq(heap, last.out.val.n, last.recv)
    /\ (last.op = "map" /\ last.out.kind = "return") =>
          \A g \in MapFuncs :
              LET second == map(heap, last.out.val.n, g)
                  composed == map(second.heap, last.recv, last.f \o g)
              IN  (second.out.kind = "return" /\ composed.out.kind = "return")
                  => PyEq(composed.heap, second.out.val.n, composed.out.val.n)
    /\ (last.op = "eq" /\ SameShape(heap, last.recv, last.arg.n))
       => last.out.val = BoolV(TRUE)

\* The methods that return containers.
Combinators ==
    {"map", "and_then", "apply", "or_else", "or_try", "or_use", "map_err",
     "cast"}

\* C8: once a container is constructed its variant and payload never
\* change: every assignment to the payload of a Some, Ok, Err or Nothing
\* fails with an error and leaves the container as it was, and no
\* combinator alters its receiver: each returns the receiver itself or an
\* instance that did not exist before.
C8_Immutable ==
    [][/\ \A a \in 1..Len(heap) : heap'[a] = heap[a]
       /\ last'.op = "setattr" => last'.out.kind = "raise"
       /\ (last'.op \in Combinators /\ last'.out.kind = "return")
          => \/ last'.out.val = Ref(last'.recv)
             \/ last'.out.val.k = "ref" /\ last'.out.val.n > Len(heap)]_vars

\* C10: the recovery operations are no-ops on the present or success
\* variant: on Some(v) or Ok(v), or_else(f), or_try(f, ...), or_use(value)
\* and or_raise(msg) return the receiver itself, still holding v, invoke
\* nothing and raise nothing.  On Nothing / Err, or_use(value) returns
\* Some(value) / Ok(value) and or_else(f) returns what its one invocation
\* of f returns, f being given nothing by Nothing and the payload by Err.
C10_RecoveryNoOps ==
    /\ (last.op \in {"or_else", "or_try", "or_use", "or_raise"}
          /\ last.was.cls \in {"Some", "Ok"}) =>
          /\ last.out = Return(Ref(last.recv))
          /\ last.calls = <<>>
          /\ heap[last.recv] = last.was
    /\ Called("or_use", "Nothing") => ReturnsFresh("Some", last.arg)
    /\ Called("or_use", "Err") => ReturnsFresh("Ok", last.arg)
    /\ Called("or_else", "Nothing") =>
          /\ Len(last.calls) = 1
          /\ TheCall.f = last.f
          /\ TheCall.args = <<>>
          /\ last.out = TheCall.out
    /\ Called("or_else", "Err") =>
          /\ Len(last.calls) = 1
          /\ TheCall.f = last.f
          /\ TheCall.args = <<last.was.payload>>
          /\ last.out = TheCall.out

\* C10 witness: or_try on a Some with an f that would have raised.
C10_SkippedRaisingF ==
    /\ Called("or_try", "Some")
    /\ last.f[1].fn = "raises"
    /\ last.out.kind = "return"

\* The with statement's container wraps the scoped resource.
WrapsResource ==
    /\ heap[scope.cm].cls \in {"Some", "Ok"}
    /\ heap[scope.cm].payload.k = "cm"

\* C9: when Some(r) or Ok(r) around a scoped resource r is used as a scope,
\* entering acquires r exactly once and yields what r gave, rewrapped in
\* the same variant; when the body ends, by completing or by raising, r's
\* own release runs exactly once, is given that exit's exception details,
\* and its verdict is returned unchanged, so it decides whether the
\* exception goes on.  For Nothing and Err, enter returns the container
\* itself, r is neither acquired nor released, and an exception from the
\* body is not suppressed.
C9_ScopedPairing ==
    /\ (scope.pc = "body" /\ WrapsResource) =>
          /\ res.enters = 1
          /\ res.got = <<>>
          /\ scope.as.k = "ref"
          /\ scope.as.n # scope.cm
          /\ heap[scope.as.n] =
                [cls |-> heap[scope.cm].cls, payload |-> res.yields]
    /\ (scope.pc = "done" /\ scope.outcome # "enter_raised" /\ WrapsResource) =>
          /\ res.enters = 1
          /\ res.got = <<scope.exc>>
          /\ scope.verdict = res.answers
          /\ scope.outcome =
                IF scope.exc = None THEN "completed"
                ELSE IF Truthy(res.answers) THEN "suppressed"
                ELSE "propagated"
    /\ (scope.pc \in {"body", "done"}
          /\ heap[scope.cm].cls \in {"Nothing", "Err"}) =>
          /\ scope.as = Ref(scope.cm)
          /\ res.enters = 0
          /\ res.got = <<>>
          /\ scope.outcome \in {"", "completed", "propagated"}
          /\ (scope.pc = "done" /\ scope.exc # None)
             => scope.outcome = "propagated"

\* C9 witness: the body of a scope on Ok(r) raised, r's release was given
\* the exception and suppressed it.
C9_ReleasedOnRaise ==
    /\ scope.pc = "done"
    /\ heap[scope.cm].cls = "Ok"
    /\ WrapsResource
    /\ scope.exc # None
    /\ scope.outcome = "suppressed"

\* The guards that answer True for the value x.
TrueGuards(h, x) ==
    {g \in GuardNames : guard(h, g, x).out = Return(BoolV(TRUE))}

\* The guard that goes with each container class.
GuardOf(cls) ==
    CASE cls = "Some" -> "is_some"
      [] cls = "Nothing" -> "is_nothing"
      [] cls = "Ok" -> "is_ok"
      [] cls = "Err" -> "is_err"

\* C11: the guards are total and exclusive.  For any input (a Maybe, a
\* Result, a value that is no container) none of is_some, is_nothing,
\* is_ok, is_err raises, and each answers True exactly when the input is
\* of its own class: so exactly one guard is true of a container, all four
\* are false of anything else, and the Maybe guards are false of Result
\* values and the other way round.
C11_GuardsTotalExclusive ==
    last.op \in GuardNames =>
        /\ last.out.kind = "return"
        /\ last.out.val \in {BoolV(TRUE), BoolV(FALSE)}
        /\ last.out.val = BoolV(TRUE)
           <=> (last.arg.k = "ref" /\ GuardOf(heap[last.arg.n].cls) = last.op)
        /\ \A g \in GuardNames : guard(heap, g, last.arg).out.kind = "return"
        /\ TrueGuards(heap, last.arg) =
              IF last.arg.k = "ref" THEN {GuardOf(heap[last.arg.n].cls)}
              ELSE {}

\* C11 witness: a Result guard was asked about a Some and answered False.
C11_OkGuardOnSome ==
    /\ last.op = "is_ok"
    /\ last.was.cls = "Some"
    /\ last.out = Return(BoolV(FALSE))

\* The container a trip began with and the one it has reached.
TripStart == heap[chain.start]
TripEnd == heap[chain.cur]

\* A conversion ended and was the second of a trip.
RoundTrip == last.op \in {"into_maybe", "into_result"} /\ chain.len = 2

\* C12: the conversion round trip.  For every Maybe m,
\* into_maybe(into_result(m)) has the variant and the payload of m:
\* Some(v) goes to Ok(v) and back to Some(v), Nothing goes to Err(None) and
\* back to Nothing.  The other way round only a failure loses anything:
\* into_result(into_maybe(Ok(v))) is Ok(v), and for every Err(e) it is
\* Err(None) whatever e was.
C12_ConversionRoundTrip ==
    /\ last.op = "into_result" /\ last.recv # 0 /\ IsMaybe(heap, last.recv) =>
           /\ last.out = Return(Ref(Len(heap)))
           /\ heap[last.recv] = last.was
           /\ heap[Len(heap)] =
                 IF last.was.cls = "Some"
                 THEN [cls |-> "Ok", payload |-> last.was.payload]
                 ELSE [cls |-> "Err", payload |-> None]
    /\ last.op = "into_maybe" /\ last.recv # 0 /\ ~IsMaybe(heap, last.recv) =>
           /\ last.out = Return(Ref(Len(heap)))
           /\ heap[last.recv] = last.was
           /\ heap[Len(heap)] =
                 IF last.was.cls = "Ok"
                 THEN [cls |-> "Some", payload |-> last.was.payload]
                 ELSE [cls |-> "Nothing", payload |-> NoSlot]
    /\ RoundTrip =>
           /\ last.out = Return(Ref(chain.cur))
           /\ chain.start # chain.cur
           /\ TripStart.cls \in {"Some", "Nothing", "Ok"} => TripEnd = TripStart
           /\ TripStart.cls = "Err" =>
                  TripEnd = [cls |-> "Err", payload |-> None]

\* C12 witness: a failure that carried an error went to a Maybe and back
\* and came out as Err(None).
C12_ErrorLostOnTrip ==
    /\ RoundTrip
    /\ last.op = "into_result"
    /\ TripStart.cls = "Err"
    /\ TripStart.payload # None
    /\ TripEnd = [cls |-> "Err", payload |-> None]

====
